---- MODULE Spec2Model ----
(***************************************************************************)
(* Quiz session engine of src/src/pages/Index.tsx (component Index) with   *)
(* the metrics, the category filters and the start guard of               *)
(* src/src/components/Dashboard.tsx (component Dashboard).                 *)
(*                                                                         *)
(* Index is a React function component.  Every handler is a closure over   *)
(* the state of the render that created it: a handler invoked from the UI  *)
(* reads the state committed before the event, and the callback handed to  *)
(* setTimeout keeps reading the state of the render in which the timer was *)
(* armed, however long it stays pending.  State setters write the live     *)
(* state (functional updates read it).  The model therefore passes each    *)
(* handler a closure record c (what it reads) and a world record w (what   *)
(* it writes).                                                             *)
(***************************************************************************)
EXTENDS Integers, Sequences, FiniteSets, TLC

VARIABLES
    \* React state of Index (Index.tsx:20-32)
    currentQuestionIndex, score, showScore, selectedAnswer, isAnswered,
    inQuiz, currentQuestions, tutorMode, showExplanation, isPaused,
    timerEnabled, timePerQuestion, questionTimer,
    \* the imported catalog (Index.tsx:3) and its isMarked flags
    qbanks, marked,
    \* the quizHistory prop (Index.tsx:15, Dashboard.tsx:18)
    quizHistory,
    \* React state of Dashboard (Dashboard.tsx:31-43)
    selectedQBank, filters,
    \* environment: pending setTimeout callbacks, each with its closure
    timers,
    \* TRUE once a render of the question view has thrown (Index.tsx:202,254)
    crashed,
    \* history variables (observers, never read by the handlers)
    sessionEmits,   \* calls of onQuizComplete since the last accepted start
    lastRecord,     \* argument of the last call of onQuizComplete this session
    attemptCount,   \* per position: answers and timeouts taken this session
    correctCount,   \* per position: correct answers taken this session
    backCount,      \* backward moves of this session
    lastOp          \* the handler that ran last and whether its guard passed

reactVars == <<currentQuestionIndex, score, showScore, selectedAnswer,
               isAnswered, inQuiz, currentQuestions, tutorMode,
               showExplanation, isPaused, timerEnabled, timePerQuestion,
               questionTimer>>

dashVars == <<qbanks, marked, quizHistory, selectedQBank, filters>>

vars == <<qbanks, marked, quizHistory, selectedQBank, filters,
          currentQuestionIndex, score, showScore, selectedAnswer, isAnswered,
          inQuiz, currentQuestions, tutorMode, showExplanation, isPaused,
          timerEnabled, timePerQuestion, questionTimer, timers, crashed,
          sessionEmits, lastRecord, attemptCount, correctCount, backCount,
          lastOp>>

----------------------------------------------------------------------------
(* Bounds *)

\* backward moves (toolbar previous, explanation Previous) explored per session
MaxBack == 1
\* largest currentQuestionIndex a timer chain is followed to
MaxIndex == 3
\* most records of a quiz history
MaxRecords == 2
\* most question attempts of a quiz history, all records together
MaxAttempts == 2

----------------------------------------------------------------------------
(* Values *)

\* useState<number | null>(null): the null of selectedAnswer
Null == 0 - 2
\* proceedToNextQuestion(-1): "-1 indicates timeout/no answer"
TimeoutOption == 0 - 1
\* useState<NodeJS.Timeout | null>(null): the null of questionTimer
NoTimer == 0
\* useState(60): timePerQuestion before any start
InitialTimePerQuestion == 60
\* no call of onQuizComplete yet
NoRecord == [score |-> 0 - 1, totalQuestions |-> 0 - 1, qbankId |-> 0,
             questionAttempts |-> "undefined"]
\* a property the object literal does not set
Undefined == "undefined"

----------------------------------------------------------------------------
(* The question catalog (import { qbanks } from "../data/questions") *)

\* question.correctAnswer, by question id
CorrectAnswer == <<1, 0>>
\* question.id
QuestionIds == DOMAIN CorrectAnswer
\* the catalogs explored: one bank of two questions, two banks of one question
OneBank == <<[id |-> 1, questions |-> <<1, 2>>]>>
TwoBanks == <<[id |-> 1, questions |-> <<1>>], [id |-> 2, questions |-> <<2>>]>>
\* qbank.id of the banks of a catalog
IdsOf(catalog) == {catalog[i].id : i \in DOMAIN catalog}
\* catalog.find(qb => qb.id === id), for an id the catalog has
FindQBank(catalog, id) ==
    catalog[CHOOSE i \in DOMAIN catalog :
                /\ catalog[i].id = id
                /\ \A j \in 1 .. (i - 1) : catalog[j].id # id]
QBankIds == IdsOf(qbanks)
\* qbank.questions: the ordered question ids of each bank
QBankQuestions == [b \in QBankIds |-> FindQBank(qbanks, b).questions]
\* question.qbankId, by question id
QBankOf ==
    [q \in QuestionIds |->
        IF \E b \in QBankIds : \E i \in DOMAIN QBankQuestions[b] : QBankQuestions[b][i] = q
        THEN CHOOSE b \in QBankIds : \E i \in DOMAIN QBankQuestions[b] : QBankQuestions[b][i] = q
        ELSE 0]
\* useState<string>(""): no bank selected
NoQBank == 0
\* keys of QuestionFilter (Dashboard.tsx:36-43)
FilterKeys == {"unused", "used", "incorrect", "correct", "marked", "omitted"}
NoFilters == [k \in FilterKeys |-> FALSE]
\* indices of question.options
Options == 0 .. 1
\* values offered for the question count input and the time limit slider
QuestionCounts == 0 .. 3
TimeLimits == {10, 60}

Range(s) == {s[i] : i \in DOMAIN s}
Min(a, b) == IF a < b THEN a ELSE b

\* [...questions].sort(() => Math.random() - 0.5).slice(0, questionCount):
\* a prefix of some permutation of the bank
Shuffled(qs, questionCount) ==
    LET n == Min(Len(qs), questionCount)
    IN  {s \in [1 .. n -> Range(qs)] : \A i, j \in 1 .. n : i # j => s[i] # s[j]}

\* a || b on number | null: null and 0 are falsy
OrElse(a, b) == IF a = Null \/ a = 0 THEN b ELSE a

----------------------------------------------------------------------------
(* Closures and the world *)

\* what a handler created by the current render reads
Closure ==
    [isAnswered |-> isAnswered, isPaused |-> isPaused, tutorMode |-> tutorMode,
     currentQuestionIndex |-> currentQuestionIndex,
     currentQuestions |-> currentQuestions, score |-> score,
     selectedAnswer |-> selectedAnswer,
     timerEnabled |-> timerEnabled, questionTimer |-> questionTimer,
     timePerQuestion |-> timePerQuestion]

\* what a handler writes
World ==
    [currentQuestionIndex |-> currentQuestionIndex, score |-> score,
     showScore |-> showScore, selectedAnswer |-> selectedAnswer,
     isAnswered |-> isAnswered, inQuiz |-> inQuiz,
     currentQuestions |-> currentQuestions, tutorMode |-> tutorMode,
     showExplanation |-> showExplanation, isPaused |-> isPaused,
     timerEnabled |-> timerEnabled, timePerQuestion |-> timePerQuestion,
     questionTimer |-> questionTimer, timers |-> timers,
     sessionEmits |-> sessionEmits, lastRecord |-> lastRecord,
     attemptCount |-> attemptCount, correctCount |-> correctCount]

\* the question view is on screen (Index.tsx:188-200)
QuizScreen == ~crashed /\ inQuiz /\ ~showScore
\* const currentQuestion = currentQuestions[currentQuestionIndex] is undefined
RenderThrows(w) ==
    w.inQuiz /\ ~w.showScore /\ w.currentQuestionIndex >= Len(w.currentQuestions)

\* history: an answer or a timeout taken on the question on screen while it
\* is unanswered
Attempt(w, correct) ==
    LET p == w.currentQuestionIndex + 1
    IN  IF ~crashed /\ w.inQuiz /\ ~w.showScore /\ ~w.isAnswered
           /\ p \in DOMAIN w.attemptCount
        THEN [w EXCEPT !.attemptCount[p] = @ + 1,
                       !.correctCount[p] = @ + (IF correct THEN 1 ELSE 0)]
        ELSE w

\* the handle returned by setTimeout: any id no live reference still names
FreshTimer(c, w) ==
    LET used == {t.id : t \in w.timers} \cup {t.c.questionTimer : t \in w.timers}
                \cup {w.questionTimer, c.questionTimer, NoTimer}
    IN  CHOOSE i \in 1 .. (Cardinality(used) + 1) :
            i \notin used /\ \A j \in 1 .. (i - 1) : j \in used

\* startQuestionTimer without the clearTimeout of the stored timer
startQuestionTimer_keepsEarlier(c, w) ==
    LET id == FreshTimer(c, w)
    IN  [w EXCEPT !.timers = @ \cup {[id |-> id, c |-> c]},
                  !.questionTimer = id]

\* startQuestionTimer (Index.tsx:59-71)
startQuestionTimer(c, w) ==
    LET id == FreshTimer(c, w)
        kept == {t \in w.timers : t.id # c.questionTimer}
    IN  [w EXCEPT !.timers = kept \cup {[id |-> id, c |-> c]},
                  !.questionTimer = id]

\* proceedToNextQuestion with the record's score taken from the running score
\* alone, the answer just submitted left out
proceedToNextQuestion_staleScore(c, w, optionIndex) ==
    IF c.currentQuestionIndex = Len(c.currentQuestions) - 1
    THEN [w EXCEPT !.lastRecord =
                       [score |-> c.score,
                        totalQuestions |-> Len(c.currentQuestions),
                        qbankId |-> QBankOf[c.currentQuestions[1]],
                        questionAttempts |-> Undefined],
                   !.sessionEmits = @ + 1,
                   !.showScore = TRUE]
    ELSE LET w1 == [w EXCEPT !.currentQuestionIndex = @ + 1,
                             !.selectedAnswer = Null,
                             !.isAnswered = FALSE]
         IN  IF c.timerEnabled THEN startQuestionTimer(c, w1) ELSE w1

\* proceedToNextQuestion (Index.tsx:99-118)
proceedToNextQuestion(c, w, optionIndex) ==
    IF c.currentQuestionIndex = Len(c.currentQuestions) - 1
    THEN LET q == c.currentQuestions[c.currentQuestionIndex + 1]
             newQuizHistory ==
                 [score |-> c.score + (IF optionIndex = CorrectAnswer[q] THEN 1 ELSE 0),
                  totalQuestions |-> Len(c.currentQuestions),
                  qbankId |-> QBankOf[c.currentQuestions[1]],
                  questionAttempts |-> Undefined]
         IN  [w EXCEPT !.lastRecord = newQuizHistory,
                       !.sessionEmits = @ + 1,
                       !.showScore = TRUE]
    ELSE LET w1 == [w EXCEPT !.currentQuestionIndex = @ + 1,
                             !.selectedAnswer = Null,
                             !.isAnswered = FALSE]
         IN  IF c.timerEnabled THEN startQuestionTimer(c, w1) ELSE w1

\* handleAnswerTimeout (Index.tsx:73-80)
handleAnswerTimeout(c, w) ==
    LET w1 == [Attempt(w, FALSE) EXCEPT !.isAnswered = TRUE]
    IN  IF c.tutorMode
        THEN [w1 EXCEPT !.showExplanation = TRUE]
        ELSE proceedToNextQuestion(c, w1, TimeoutOption)

\* the callback's guard without the pause test
TimerAccepts_ignoresPause(c) == ~c.isAnswered
\* the callback of setTimeout (Index.tsx:64-68)
TimerAccepts(c) == ~c.isAnswered /\ ~c.isPaused
timerCallback(c, w) ==
    IF TimerAccepts(c) THEN handleAnswerTimeout(c, w) ELSE w

\* the guard testing the selected answer in place of isAnswered
AnswerAccepts_testsSelection(c) == ~(c.selectedAnswer # Null \/ c.isPaused)
\* the guard of handleAnswerClick (Index.tsx:83)
AnswerAccepts(c) == ~(c.isAnswered \/ c.isPaused)
\* handleAnswerClick without the isAnswered test
handleAnswerClick_noAnsweredGuard(c, w, optionIndex) ==
    IF c.isPaused THEN w
    ELSE LET correct == optionIndex =
                 CorrectAnswer[c.currentQuestions[c.currentQuestionIndex + 1]]
             w1 == [Attempt(w, correct) EXCEPT
                       !.selectedAnswer = optionIndex,
                       !.isAnswered = TRUE,
                       !.score = IF correct THEN @ + 1 ELSE @]
         IN  IF c.tutorMode
             THEN [w1 EXCEPT !.showExplanation = TRUE]
             ELSE proceedToNextQuestion(c, w1, optionIndex)
\* handleAnswerClick (Index.tsx:82-97)
handleAnswerClick(c, w, optionIndex) ==
    IF ~AnswerAccepts(c) THEN w
    ELSE LET correct == optionIndex =
                 CorrectAnswer[c.currentQuestions[c.currentQuestionIndex + 1]]
             w1 == [Attempt(w, correct) EXCEPT
                       !.selectedAnswer = optionIndex,
                       !.isAnswered = TRUE,
                       !.score = IF correct THEN @ + 1 ELSE @]
         IN  IF c.tutorMode
             THEN [w1 EXCEPT !.showExplanation = TRUE]
             ELSE proceedToNextQuestion(c, w1, optionIndex)

\* handleRestart (Index.tsx:144-156)
handleRestart(c, w) ==
    [w EXCEPT !.timers = {t \in w.timers : t.id # c.questionTimer},
              !.inQuiz = FALSE,
              !.currentQuestionIndex = 0,
              !.score = 0,
              !.showScore = FALSE,
              !.selectedAnswer = Null,
              !.isAnswered = FALSE,
              !.tutorMode = FALSE,
              !.isPaused = FALSE]

\* handleQuit (Index.tsx:120-130)
handleQuit(c, w) ==
    LET newQuizHistory ==
            [score |-> c.score,
             totalQuestions |-> Len(c.currentQuestions),
             qbankId |-> QBankOf[c.currentQuestions[1]],
             questionAttempts |-> Undefined]
    IN  handleRestart(c, [w EXCEPT !.lastRecord = newQuizHistory,
                                   !.sessionEmits = @ + 1])

\* handlePause (Index.tsx:132-137)
handlePause(c, w) ==
    [w EXCEPT !.isPaused = ~@,
              !.timers = {t \in w.timers : t.id # c.questionTimer}]

\* handleContinue that leaves the explanation panel open
handleContinue_keepsExplanation(c, w) ==
    proceedToNextQuestion(c, w, OrElse(c.selectedAnswer, 0))

\* handleContinue (Index.tsx:139-142)
handleContinue(c, w) ==
    proceedToNextQuestion(c, [w EXCEPT !.showExplanation = FALSE],
                          OrElse(c.selectedAnswer, 0))

\* handleQuizNavigation (Index.tsx:175-186)
handleQuizNavigation(c, w, direction) ==
    IF direction = "prev" /\ c.currentQuestionIndex > 0
    THEN LET w1 == [w EXCEPT !.currentQuestionIndex = @ - 1,
                             !.selectedAnswer = Null,
                             !.isAnswered = FALSE]
         IN  IF c.timerEnabled THEN startQuestionTimer(c, w1) ELSE w1
    ELSE IF direction = "next"
            /\ c.currentQuestionIndex < Len(c.currentQuestions) - 1
    THEN proceedToNextQuestion(c, w, OrElse(c.selectedAnswer, TimeoutOption))
    ELSE w

\* Index.handleStartQuiz (Index.tsx:34-57); qs is the shuffled prefix
handleStartQuiz(c, w, qs, isTutorMode, withTimer, timeLimit) ==
    LET w1 == [w EXCEPT !.currentQuestions = qs,
                        !.currentQuestionIndex = 0,
                        !.score = 0,
                        !.showScore = FALSE,
                        !.selectedAnswer = Null,
                        !.isAnswered = FALSE,
                        !.tutorMode = isTutorMode,
                        !.timerEnabled = withTimer,
                        !.timePerQuestion = timeLimit,
                        !.inQuiz = TRUE,
                        !.isPaused = FALSE]
    IN  IF withTimer THEN startQuestionTimer(c, w1) ELSE w1

----------------------------------------------------------------------------
(* Dashboard *)

\* quizHistory.flatMap(quiz => quiz.questionAttempts.filter(attempt =>
\* attempt.questionId === question.id)) (Dashboard.tsx:164-166)
RECURSIVE AttemptsOf(_, _)
AttemptsOf(history, q) ==
    IF history = <<>> THEN <<>>
    ELSE SelectSeq(Head(history).questionAttempts, LAMBDA a : a.questionId = q)
         \o AttemptsOf(Tail(history), q)

\* the predicate of questions.filter (Dashboard.tsx:163-181)
Retained(q) ==
    LET attempts == AttemptsOf(quizHistory, q)
        isUsed == Len(attempts) > 0
        isCorrect == \E i \in DOMAIN attempts : attempts[i].isCorrect
        isIncorrect == \E i \in DOMAIN attempts : ~attempts[i].isCorrect
        isOmitted == \E i \in DOMAIN attempts : attempts[i].selectedAnswer = Null
    IN  \/ filters["unused"] /\ ~isUsed
        \/ filters["used"] /\ isUsed
        \/ filters["correct"] /\ isCorrect
        \/ filters["incorrect"] /\ isIncorrect
        \/ filters["marked"] /\ q \in marked
        \/ filters["omitted"] /\ isOmitted

\* filteredQBanks that keeps the banks left without questions
FilteredQBanks_keepsEmptyBanks ==
    IF ~(\E k \in FilterKeys : filters[k]) THEN qbanks
    ELSE [i \in DOMAIN qbanks |->
             [qbanks[i] EXCEPT !.questions = SelectSeq(@, Retained)]]

\* filteredQBanks (Dashboard.tsx:158-183)
FilteredQBanks ==
    IF ~(\E k \in FilterKeys : filters[k]) THEN qbanks
    ELSE SelectSeq([i \in DOMAIN qbanks |->
                       [qbanks[i] EXCEPT !.questions = SelectSeq(@, Retained)]],
                   LAMBDA qbank : Len(qbank.questions) > 0)

\* the id sets of metrics before the history is processed (Dashboard.tsx:46-50)
NoIds == [seen |-> {}, correct |-> {}, incorrect |-> {}, omitted |-> {}]

\* the forEach body that does not count an omitted attempt as incorrect
Categorize_omittedNotIncorrect(sets, attempt) ==
    LET id == attempt.questionId
        seen == [sets EXCEPT !.seen = @ \cup {id}]
    IN  IF attempt.selectedAnswer = Null
        THEN [seen EXCEPT !.omitted = @ \cup {id}]
        ELSE IF attempt.isCorrect
        THEN [seen EXCEPT !.correct = @ \cup {id}]
        ELSE [seen EXCEPT !.incorrect = @ \cup {id}]

\* the body of questionAttempts.forEach (Dashboard.tsx:55-64)
Categorize(sets, attempt) ==
    LET id == attempt.questionId
        seen == [sets EXCEPT !.seen = @ \cup {id}]
    IN  IF attempt.selectedAnswer = Null
        THEN [seen EXCEPT !.incorrect = @ \cup {id}, !.omitted = @ \cup {id}]
        ELSE IF attempt.isCorrect
        THEN [seen EXCEPT !.correct = @ \cup {id}]
        ELSE [seen EXCEPT !.incorrect = @ \cup {id}]

\* quiz.questionAttempts.forEach (Dashboard.tsx:54-65)
RECURSIVE ForEachAttempt(_, _)
ForEachAttempt(sets, attempts) ==
    IF attempts = <<>> THEN sets
    ELSE ForEachAttempt(Categorize(sets, Head(attempts)), Tail(attempts))

\* quizHistory.forEach (Dashboard.tsx:53-66)
RECURSIVE ForEachQuiz(_, _)
ForEachQuiz(sets, history) ==
    IF history = <<>> THEN sets
    ELSE ForEachQuiz(ForEachAttempt(sets, Head(history).questionAttempts),
                     Tail(history))

\* qbanks.reduce for unusedCount (Dashboard.tsx:73-74)
RECURSIVE UnusedCount(_, _)
UnusedCount(catalog, seen) ==
    IF catalog = <<>> THEN 0
    ELSE UnusedCount(SubSeq(catalog, 1, Len(catalog) - 1), seen)
         + Len(SelectSeq(catalog[Len(catalog)].questions,
                         LAMBDA q : q \notin seen))

\* the questions with isMarked, collected only when there is a history
\* (Dashboard.tsx:77-87)
MarkedQuestionIds ==
    IF Len(quizHistory) > 0
    THEN {q \in UNION {Range(qbanks[i].questions) : i \in DOMAIN qbanks} :
             q \in marked}
    ELSE {}

\* metrics (Dashboard.tsx:45-97)
Metrics ==
    LET sets == ForEachQuiz(NoIds, quizHistory)
    IN  [unused |-> UnusedCount(qbanks, sets.seen),
         used |-> Cardinality(sets.seen),
         correct |-> Cardinality(sets.correct),
         incorrect |-> Cardinality(sets.incorrect),
         marked |-> Cardinality(MarkedQuestionIds),
         omitted |-> Cardinality(sets.omitted)]

\* overallAccuracy without the test of totalAttempted: 0 / 0 is NaN
OverallAccuracy_unguarded ==
    [num |-> Metrics.correct * 100, den |-> Metrics.correct + Metrics.incorrect]

\* overallAccuracy (Dashboard.tsx:100-103), as the fraction num / den;
\* den = 0 stands for NaN
OverallAccuracy ==
    LET totalAttempted == Metrics.correct + Metrics.incorrect
    IN  IF totalAttempted > 0
        THEN [num |-> Metrics.correct * 100, den |-> totalAttempted]
        ELSE [num |-> 0, den |-> 1]

\* Index.handleStartQuiz finds the bank in qbanks (Index.tsx:35-36)
IndexAccepts(qbankId) == qbankId \in QBankIds

\* Dashboard.handleStartQuiz (Dashboard.tsx:185-197): the call of onStartQuiz
\* is reached; a bank that filteredQBanks no longer has gives
\* questionCount > undefined, which is false
DashboardAccepts(qbankId, questionCount) ==
    /\ qbankId # NoQBank
    /\ questionCount > 0
    /\ ~(/\ qbankId \in IdsOf(FilteredQBanks)
          /\ questionCount > Len(FindQBank(FilteredQBanks, qbankId).questions))

----------------------------------------------------------------------------
(* Commit of a handler's writes, followed by the render *)

\* setters of an unmounted component are dropped; the timers and the calls
\* of onQuizComplete are outside the component
Commit(w) ==
    /\ currentQuestionIndex' = IF crashed THEN currentQuestionIndex ELSE w.currentQuestionIndex
    /\ score' = IF crashed THEN score ELSE w.score
    /\ showScore' = IF crashed THEN showScore ELSE w.showScore
    /\ selectedAnswer' = IF crashed THEN selectedAnswer ELSE w.selectedAnswer
    /\ isAnswered' = IF crashed THEN isAnswered ELSE w.isAnswered
    /\ inQuiz' = IF crashed THEN inQuiz ELSE w.inQuiz
    /\ currentQuestions' = IF crashed THEN currentQuestions ELSE w.currentQuestions
    /\ tutorMode' = IF crashed THEN tutorMode ELSE w.tutorMode
    /\ showExplanation' = IF crashed THEN showExplanation ELSE w.showExplanation
    /\ isPaused' = IF crashed THEN isPaused ELSE w.isPaused
    /\ timerEnabled' = IF crashed THEN timerEnabled ELSE w.timerEnabled
    /\ timePerQuestion' = IF crashed THEN timePerQuestion ELSE w.timePerQuestion
    /\ questionTimer' = IF crashed THEN questionTimer ELSE w.questionTimer
    /\ timers' = w.timers
    /\ sessionEmits' = w.sessionEmits
    /\ lastRecord' = w.lastRecord
    /\ attemptCount' = w.attemptCount
    /\ correctCount' = w.correctCount
    /\ crashed' = (crashed \/ RenderThrows(w))
    \* Dashboard is mounted only while the dashboard is shown (Index.tsx:188):
    \* its state is discarded when the quiz view replaces it
    /\ selectedQBank' = IF inQuiz' THEN NoQBank ELSE selectedQBank
    /\ filters' = IF inQuiz' THEN NoFilters ELSE filters
    /\ UNCHANGED <<qbanks, marked, quizHistory>>

\* no answer taken yet, for each position of the longest session
NoAttempts == [p \in QuestionIds |-> 0]

----------------------------------------------------------------------------
(* Initial state and events *)

IndexInit ==
    /\ currentQuestionIndex = 0
    /\ score = 0
    /\ showScore = FALSE
    /\ selectedAnswer = Null
    /\ isAnswered = FALSE
    /\ inQuiz = FALSE
    /\ currentQuestions = <<>>
    /\ tutorMode = FALSE
    /\ showExplanation = FALSE
    /\ isPaused = FALSE
    /\ timerEnabled = FALSE
    /\ timePerQuestion = InitialTimePerQuestion
    /\ questionTimer = NoTimer
    /\ timers = {}
    /\ crashed = FALSE
    /\ sessionEmits = 0
    /\ lastRecord = NoRecord
    /\ attemptCount = NoAttempts
    /\ correctCount = NoAttempts
    /\ backCount = 0
    /\ lastOp = "init"

\* Dashboard's useState initial values (Dashboard.tsx:31-43)
DashboardInit ==
    /\ selectedQBank = NoQBank
    /\ filters = NoFilters

\* one bank, no history, nothing marked
Init ==
    /\ IndexInit
    /\ DashboardInit
    /\ qbanks = OneBank
    /\ marked = {}
    /\ quizHistory = <<>>

\* a click on the card of a bank of filteredQBanks (Dashboard.tsx:281-297)
SelectQBank ==
    /\ ~crashed /\ ~inQuiz
    /\ \E qbankId \in IdsOf(FilteredQBanks) : selectedQBank' = qbankId
    /\ lastOp' = "selectQBank"
    /\ UNCHANGED <<reactVars, timers, crashed, sessionEmits, lastRecord,
                   attemptCount, correctCount, backCount,
                   qbanks, marked, quizHistory, filters>>

\* toggleFilter (Dashboard.tsx:199-204), from a category button
ToggleFilter ==
    /\ ~crashed /\ ~inQuiz
    /\ \E key \in FilterKeys : filters' = [filters EXCEPT ![key] = ~@]
    /\ lastOp' = "toggleFilter"
    /\ UNCHANGED <<reactVars, timers, crashed, sessionEmits, lastRecord,
                   attemptCount, correctCount, backCount,
                   qbanks, marked, quizHistory, selectedQBank>>

\* the Start button of the dashboard with questionCount in the number
\* input, accepted
StartAccepted(questionCount) ==
    /\ ~crashed /\ ~inQuiz
    /\ \E isTutorMode \in BOOLEAN, withTimer \in BOOLEAN, timeLimit \in TimeLimits :
          /\ DashboardAccepts(selectedQBank, questionCount)
          /\ IndexAccepts(selectedQBank)
          /\ \E qs \in Shuffled(QBankQuestions[selectedQBank], questionCount) :
                Commit(handleStartQuiz(Closure,
                          [World EXCEPT !.sessionEmits = 0,
                                        !.lastRecord = NoRecord,
                                        !.attemptCount = NoAttempts,
                                        !.correctCount = NoAttempts],
                          qs, isTutorMode, withTimer, timeLimit))
    /\ backCount' = 0
    /\ lastOp' = "start"

StartQuiz == \E questionCount \in QuestionCounts : StartAccepted(questionCount)

\* the Start button of the dashboard, rejected
StartRejected ==
    /\ ~crashed /\ ~inQuiz
    /\ \E questionCount \in QuestionCounts :
          ~(DashboardAccepts(selectedQBank, questionCount)
            /\ IndexAccepts(selectedQBank))
    /\ lastOp' = "startRejected"
    /\ UNCHANGED <<reactVars, timers, crashed, sessionEmits, lastRecord,
                   attemptCount, correctCount, backCount, dashVars>>

\* a click on option optionIndex (Index.tsx:269)
AnswerClick(optionIndex) ==
    /\ QuizScreen
    /\ Commit(handleAnswerClick(Closure, World, optionIndex))
    /\ lastOp' = IF AnswerAccepts(Closure) THEN "answer" ELSE "answerRejected"
    /\ UNCHANGED backCount

\* expiry of pending timer t
TimerFire(t) ==
    /\ t \in timers
    /\ currentQuestionIndex < MaxIndex
    /\ Commit(timerCallback(t.c, [World EXCEPT !.timers = @ \ {t}]))
    /\ lastOp' = IF TimerAccepts(t.c) THEN "timeout" ELSE "timeoutRejected"
    /\ UNCHANGED backCount

Answer == \E optionIndex \in Options : AnswerClick(optionIndex)
TimerExpiry == \E t \in timers : TimerFire(t)

\* the Next / Finish button of the explanation panel (Index.tsx:278,299)
Continue ==
    /\ QuizScreen /\ showExplanation
    /\ Commit(handleContinue(Closure, World))
    /\ lastOp' = "continue"
    /\ UNCHANGED backCount

\* the Previous button of the explanation panel (Index.tsx:290-297)
ExplanationPrevious ==
    /\ QuizScreen /\ showExplanation
    /\ currentQuestionIndex # 0
    /\ backCount < MaxBack
    /\ Commit([World EXCEPT !.currentQuestionIndex =
                                IF @ - 1 > 0 THEN @ - 1 ELSE 0])
    /\ backCount' = backCount + 1
    /\ lastOp' = "explanationPrevious"

\* the toolbar's previous button (Index.tsx:209-217)
NavigatePrev ==
    /\ QuizScreen
    /\ currentQuestionIndex # 0
    /\ backCount < MaxBack
    /\ Commit(handleQuizNavigation(Closure, World, "prev"))
    /\ backCount' = backCount + 1
    /\ lastOp' = "navigatePrev"

\* the toolbar's next button (Index.tsx:218-226)
NavigateNext ==
    /\ QuizScreen
    /\ ~(currentQuestionIndex = Len(currentQuestions) - 1 \/ ~isAnswered)
    /\ Commit(handleQuizNavigation(Closure, World, "next"))
    /\ lastOp' = "navigateNext"
    /\ UNCHANGED backCount

\* the toolbar's pause / resume button (Index.tsx:227-234)
Pause ==
    /\ QuizScreen
    /\ Commit(handlePause(Closure, World))
    /\ lastOp' = IF isPaused THEN "resume" ELSE "pause"
    /\ UNCHANGED backCount

\* the toolbar's quit button (Index.tsx:235-242)
Quit ==
    /\ QuizScreen
    /\ Commit(handleQuit(Closure, World))
    /\ lastOp' = "quit"
    /\ UNCHANGED backCount

\* the score card's restart (Index.tsx:198-200)
Restart ==
    /\ ~crashed /\ inQuiz /\ showScore
    /\ Commit(handleRestart(Closure, World))
    /\ lastOp' = "restart"
    /\ UNCHANGED backCount

Next ==
    \/ SelectQBank
    \/ StartQuiz
    \/ StartRejected
    \/ Answer
    \/ TimerExpiry
    \/ Continue
    \/ ExplanationPrevious
    \/ NavigatePrev
    \/ NavigateNext
    \/ Pause
    \/ Quit
    \/ Restart

Spec == Init /\ [][Next]_vars

\* the dashboard with its category filters, over both catalogs and every
\* set of marked questions; no history yet
StartInit ==
    /\ IndexInit
    /\ DashboardInit
    /\ qbanks \in {OneBank, TwoBanks}
    /\ marked \in SUBSET QuestionIds
    /\ quizHistory = <<>>

StartNext ==
    \/ ToggleFilter
    \/ SelectQBank
    \/ StartQuiz
    \/ StartRejected
    \/ Quit

StartSpec == StartInit /\ [][StartNext]_vars

\* a question attempt of a history record: isCorrect follows from the
\* selected option, and no option selected is never correct
QuestionAttempts ==
    {[questionId |-> q, selectedAnswer |-> a, isCorrect |-> a = CorrectAnswer[q]] :
        q \in QuestionIds, a \in {Null} \cup Options}

\* the histories of at most r records with at most a attempts in all
RECURSIVE Histories(_, _)
Histories(r, a) ==
    {<<>>} \cup
    (IF r = 0 THEN {}
     ELSE UNION {{<<[questionAttempts |-> attempts]>> \o history :
                     attempts \in [1 .. n -> QuestionAttempts],
                     history \in Histories(r - 1, a - n)} : n \in 0 .. a})

\* the dashboard over two banks, every set of marked questions and every
\* bounded history
MetricsInit ==
    /\ IndexInit
    /\ DashboardInit
    /\ qbanks = TwoBanks
    /\ marked \in SUBSET QuestionIds
    /\ quizHistory \in Histories(MaxRecords, MaxAttempts)

MetricsNext == ToggleFilter

MetricsSpec == MetricsInit /\ [][MetricsNext]_vars

----------------------------------------------------------------------------
(* Shape of the state *)

InSession == inQuiz /\ ~showScore
AtMostOneTimer == Cardinality(timers) <= 1
----------------------------------------------------------------------------
(* History callback *)

\* a session has been started at least once
Started == currentQuestions # <<>>

\* C1: between an accepted start and the next return to the dashboard the
\* history callback is invoked exactly once: no call while the session is
\* running, one call when the last question is completed or the user quits,
\* and never a second call, whatever the interleaving with timer expiries.
C1_HistoryOncePerSession ==
    Started =>
        /\ sessionEmits <= 1
        /\ (inQuiz /\ showScore => sessionEmits = 1)
        /\ (~inQuiz => sessionEmits = 1)
----------------------------------------------------------------------------
(* Score *)

Positions == DOMAIN attemptCount
RECURSIVE Sum(_, _)
Sum(f, S) == IF S = {} THEN 0
             ELSE LET p == CHOOSE x \in S : TRUE IN f[p] + Sum(f, S \ {p})
\* questions of the session with a correct answer taken
CorrectQuestions == {p \in Positions : correctCount[p] > 0}
\* correct answers taken in the session
CorrectAnswers == Sum(correctCount, Positions)

\* C2: in every state of a session the running score is the number of
\* questions of the session for which a correct answer was recorded.
C2_ScoreIsCorrectQuestions ==
    inQuiz => score = Cardinality(CorrectQuestions)

\* the last step completed the last question: by the answer itself or by
\* the explanation panel's Finish
JustCompleted == inQuiz /\ showScore /\ lastOp \in {"answer", "continue"}

\* C3: when the last question is completed, in tutor mode (continue) as in
\* non-tutor mode (answer), the emitted record's score is the tally of the
\* correct answers, the last one counted once, and its totalQuestions is the
\* length of the session's question sequence.
C3_FinalRecord ==
    JustCompleted =>
        /\ lastRecord.score = CorrectAnswers
        /\ lastRecord.totalQuestions = Len(currentQuestions)

\* the session is non-tutor with the timer disabled
PlainSession == inQuiz /\ ~tutorMode /\ ~timerEnabled

\* C4: in a session started with tutorMode = false and the timer disabled,
\* each answer advances to the next question, the score rising by one iff
\* the answer is correct, and the answer to the last question moves the
\* session to Finished and emits one record with score = number of correct
\* answers and totalQuestions = n.
C4_PlainSessionAdvances ==
    [][\A optionIndex \in Options :
          QuizScreen /\ PlainSession /\ AnswerAccepts(Closure)
          /\ AnswerClick(optionIndex) =>
              LET last == currentQuestionIndex = Len(currentQuestions) - 1
                  correct == optionIndex =
                      CorrectAnswer[currentQuestions[currentQuestionIndex + 1]]
              IN  /\ score' = score + (IF correct THEN 1 ELSE 0)
                  /\ ~last => /\ currentQuestionIndex' = currentQuestionIndex + 1
                              /\ ~showScore' /\ ~isAnswered'
                              /\ sessionEmits' = 0
                  /\ last => /\ showScore'
                             /\ currentQuestionIndex' = currentQuestionIndex
                             /\ sessionEmits' = 1
                             /\ lastRecord'.score = CorrectAnswers'
                             /\ lastRecord'.totalQuestions = Len(currentQuestions)]_vars

\* a two-question plain session finished by two answers
C4_Witness ==
    /\ PlainSession /\ JustCompleted
    /\ Len(currentQuestions) = 2
    /\ attemptCount = <<1, 1>>
    /\ lastRecord.totalQuestions = 2

----------------------------------------------------------------------------
(* Guards of answer and timeout *)

\* C5: within one session each question is answered (an answer or a timeout
\* taken, its correctness added to the score) at most once, backward
\* navigation included.
C5_AnsweredAtMostOnce ==
    \A p \in Positions : attemptCount[p] <= 1

\* the question on screen has been answered in tutor mode and its
\* explanation is showing
AnsweredWaiting == QuizScreen /\ tutorMode /\ isAnswered /\ showExplanation

\* C6: once the current question is answered (tutor mode, explanation
\* showing), a further answer(j), for any j, leaves selectedAnswer,
\* isAnswered, score, currentQuestionIndex and showExplanation unchanged.
C6_AnswerIdempotent ==
    [][\A optionIndex \in Options :
          AnsweredWaiting /\ AnswerClick(optionIndex) =>
              UNCHANGED <<selectedAnswer, isAnswered, score,
                          currentQuestionIndex, showExplanation>>]_vars

\* a second answer was given on an answered tutor-mode question
C6_Witness ==
    /\ AnsweredWaiting /\ ~isPaused
    /\ lastOp = "answerRejected"
    /\ selectedAnswer \in Options
    /\ attemptCount[currentQuestionIndex + 1] = 1

\* a manual answer is recorded for the question on screen
ManuallyAnswered == QuizScreen /\ isAnswered /\ selectedAnswer \in Options

\* C7: a timer expiry that comes after a manual answer was recorded for the
\* question on screen is a no-op: the recorded answer, the score and the
\* current index stay and no history record is emitted.
C7_ExpiryAfterAnswerIsNoOp ==
    [][ManuallyAnswered /\ TimerExpiry =>
          UNCHANGED <<selectedAnswer, isAnswered, score,
                      currentQuestionIndex, sessionEmits>>]_vars

\* a timeout is recorded for the tutor-mode question on screen: only
\* handleAnswerTimeout sets isAnswered without a selected answer
TimedOutWaiting == QuizScreen /\ tutorMode /\ isAnswered /\ selectedAnswer = Null

\* C8: after a timeout was recorded for the current question of a tutor-mode
\* session, any answer(i) on that question is rejected: selectedAnswer stays
\* "no answer" and the score is unchanged.
C8_AnswerAfterTimeoutRejected ==
    [][\A optionIndex \in Options :
          TimedOutWaiting /\ AnswerClick(optionIndex) =>
              /\ selectedAnswer' = Null
              /\ UNCHANGED <<score, isAnswered, currentQuestionIndex>>]_vars

\* an answer was tried on a timed-out question whose explanation is showing
C8_Witness ==
    /\ TimedOutWaiting /\ showExplanation /\ ~isPaused
    /\ lastOp = "answerRejected"
    /\ attemptCount[currentQuestionIndex + 1] >= 1

----------------------------------------------------------------------------
(* Timer *)

\* an unanswered, unpaused question of a timed session is on screen
AwaitingTimeout == QuizScreen /\ timerEnabled /\ ~isAnswered /\ ~isPaused

\* C9: in a session with timerEnabled every question that is current,
\* unanswered and unpaused has a timer pending for the timePerQuestion given
\* to start, and the expiry takes effect: the question is marked answered
\* with its explanation shown in tutor mode, and the session advances (or
\* finishes on the last question) otherwise.
C9_TimeoutTakesEffect ==
    [][AwaitingTimeout =>
          /\ \E t \in timers : /\ TimerAccepts(t.c)
                               /\ t.c.timePerQuestion = timePerQuestion
          /\ TimerExpiry =>
                IF tutorMode
                THEN /\ isAnswered' /\ showExplanation'
                     /\ currentQuestionIndex' = currentQuestionIndex
                ELSE IF currentQuestionIndex = Len(currentQuestions) - 1
                THEN showScore' /\ sessionEmits' = 1
                ELSE currentQuestionIndex' = currentQuestionIndex + 1]_vars

\* C10: while isPaused is true, answer(i) and a timer expiry are both
\* rejected: neither changes selectedAnswer, isAnswered, score,
\* currentQuestionIndex or showExplanation, and neither emits a record.
C10_PausedRejects ==
    [][QuizScreen /\ isPaused /\ (Answer \/ TimerExpiry) =>
          UNCHANGED <<selectedAnswer, isAnswered, score, currentQuestionIndex,
                      showExplanation, sessionEmits, lastRecord>>]_vars

\* a timer expired, and was rejected, while the session was paused
C10_Witness ==
    QuizScreen /\ isPaused /\ lastOp = "timeoutRejected"

----------------------------------------------------------------------------
(* Pause, tutor mode, quit, navigation *)

\* C11: with timerEnabled, resuming from pause on an unanswered question
\* re-arms a fresh timer: after the resume a timer is pending whose expiry
\* will time the question out.
C11_ResumeRearms ==
    QuizScreen /\ timerEnabled /\ ~isAnswered /\ lastOp = "resume" =>
        \E t \in timers : TimerAccepts(t.c)

\* C12: in tutor mode an accepted answer does not advance (the index stays,
\* isAnswered and showExplanation become true); a following continue on a
\* question that is not the last raises the index by one and presents the
\* next question unanswered with no explanation shown.
C12_TutorAnswerThenContinue ==
    [][/\ \A optionIndex \in Options :
             QuizScreen /\ tutorMode /\ AnswerAccepts(Closure)
             /\ AnswerClick(optionIndex) =>
                 /\ currentQuestionIndex' = currentQuestionIndex
                 /\ isAnswered' /\ showExplanation' /\ ~showScore'
                 /\ selectedAnswer' = optionIndex
       /\ AnsweredWaiting /\ currentQuestionIndex < Len(currentQuestions) - 1
          /\ Continue =>
                 /\ currentQuestionIndex' = currentQuestionIndex + 1
                 /\ ~isAnswered' /\ ~showExplanation' /\ ~showScore'
                 /\ selectedAnswer' = Null
                 /\ UNCHANGED <<score, sessionEmits>>]_vars

\* continue has moved a tutor-mode session from its answered first question
\* to its second question
C12_Witness ==
    /\ QuizScreen /\ tutorMode /\ lastOp = "continue"
    /\ currentQuestionIndex = 1 /\ ~isAnswered /\ ~showExplanation
    /\ attemptCount = <<1, 0>>

\* answers and timeouts taken in the session
AttemptsTaken == Sum(attemptCount, Positions)

\* C13: quit emits one record that holds exactly the attempts recorded so
\* far, with score = the running score and totalQuestions = the length of
\* the session's sequence, and moves the session to the dashboard without
\* showing the score card.
C13_QuitRecord ==
    lastOp = "quit" =>
        /\ ~inQuiz /\ ~showScore
        /\ sessionEmits = 1
        /\ lastRecord.score = CorrectAnswers
        /\ lastRecord.totalQuestions = Len(currentQuestions)
        /\ lastRecord.questionAttempts # Undefined
        /\ Len(lastRecord.questionAttempts) = AttemptsTaken

\* C16: in a session started with timerEnabled backward navigation is
\* blocked: no step of the running session lowers currentQuestionIndex or
\* re-opens an answered question.
C16_NoBackwardWithTimer ==
    [][QuizScreen /\ timerEnabled /\ inQuiz' =>
          currentQuestionIndex' >= currentQuestionIndex]_vars

----------------------------------------------------------------------------
(* Start requests *)

\* the questions of bank qbankId in the filtered catalog
FilteredQuestions(qbankId) ==
    IF qbankId \in IdsOf(FilteredQBanks)
    THEN FindQBank(FilteredQBanks, qbankId).questions
    ELSE <<>>

\* a start request the claim calls valid
ValidRequest(qbankId, questionCount) ==
    /\ Len(FilteredQuestions(qbankId)) >= 1
    /\ questionCount >= 1
    /\ questionCount <= Len(FilteredQuestions(qbankId))

\* C14: a start request that is invalid (the bank is not a bank with at
\* least one question of the filtered catalog, or questionCount < 1, or
\* questionCount exceeds the bank's questions in the filtered catalog) never
\* enters a session: the engine stays idle and no session state changes.
C14_InvalidStartIsNoOp ==
    [][\A questionCount \in QuestionCounts :
          ~ValidRequest(selectedQBank, questionCount)
          /\ (StartAccepted(questionCount) \/ StartRejected) =>
              ~inQuiz' /\ UNCHANGED reactVars]_vars

\* C15: for every accepted start request the session's sequence has length
\* exactly questionCount, has no question twice, and every question of it
\* belongs to the selected bank as the filtered catalog has it.
C15_SequenceFromFilteredBank ==
    [][\A questionCount \in QuestionCounts :
          ValidRequest(selectedQBank, questionCount)
          /\ StartAccepted(questionCount) =>
              /\ Len(currentQuestions') = questionCount
              /\ Cardinality(Range(currentQuestions')) = questionCount
              /\ Range(currentQuestions')
                    \subseteq Range(FilteredQuestions(selectedQBank))]_vars

----------------------------------------------------------------------------
(* Metrics and category filters *)

\* the questions of the catalog
CatalogQuestions == UNION {Range(qbanks[i].questions) : i \in DOMAIN qbanks}

\* C17: the marked count of the metrics equals the number of catalog
\* questions whose isMarked flag is true, for every history, the empty
\* history included.
C17_MarkedCount ==
    Metrics.marked = Cardinality({q \in CatalogQuestions : q \in marked})

\* the attempts of question q in all records of the history satisfy P
SomeAttempt(q, P(_)) ==
    \E i \in DOMAIN quizHistory :
        \E j \in DOMAIN quizHistory[i].questionAttempts :
            /\ quizHistory[i].questionAttempts[j].questionId = q
            /\ P(quizHistory[i].questionAttempts[j])

UsedIds == {q \in QuestionIds : SomeAttempt(q, LAMBDA a : TRUE)}
CorrectIds == {q \in QuestionIds : SomeAttempt(q, LAMBDA a : a.isCorrect)}
IncorrectIds == {q \in QuestionIds : SomeAttempt(q, LAMBDA a : ~a.isCorrect)}
OmittedIds ==
    {q \in QuestionIds : SomeAttempt(q, LAMBDA a : a.selectedAnswer = Null)}

\* C18: the metrics counts are the sizes of the id sets over all attempts of
\* all records: used = questions with an attempt, correct = with a correct
\* attempt, incorrect = with an attempt that is not correct (omitted ones
\* included), omitted = with an attempt without a selected answer, unused =
\* catalog questions without an attempt; one question can count as correct
\* and incorrect at once.
C18_MetricsAreSetSizes ==
    /\ Metrics.used = Cardinality(UsedIds)
    /\ Metrics.correct = Cardinality(CorrectIds)
    /\ Metrics.incorrect = Cardinality(IncorrectIds)
    /\ Metrics.omitted = Cardinality(OmittedIds)
    /\ Metrics.unused = Cardinality(CatalogQuestions \ UsedIds)

\* one question answered correctly in one record and omitted in another:
\* it counts as correct, incorrect and omitted, the other question as unused
C18_Witness ==
    /\ Len(quizHistory) = 2
    /\ \E q \in CorrectIds \cap OmittedIds :
          Metrics = [unused |-> 1, used |-> 1, correct |-> 1, incorrect |-> 1,
                     marked |-> Cardinality(marked), omitted |-> 1]

\* question q matches an active category
Matches(q) ==
    \/ filters["unused"] /\ q \notin UsedIds
    \/ filters["used"] /\ q \in UsedIds
    \/ filters["correct"] /\ q \in CorrectIds
    \/ filters["incorrect"] /\ q \in IncorrectIds
    \/ filters["marked"] /\ q \in marked
    \/ filters["omitted"] /\ q \in OmittedIds

\* s is t with some elements left out
RECURSIVE IsSubsequence(_, _)
IsSubsequence(s, t) ==
    \/ s = <<>>
    \/ /\ t # <<>>
       /\ \/ Head(s) = Head(t) /\ IsSubsequence(Tail(s), Tail(t))
          \/ IsSubsequence(s, Tail(t))

C20_OverallAccuracy ==
    LET correct == Cardinality(CorrectIds)
        incorrect == Cardinality(IncorrectIds)
    IN  /\ OverallAccuracy.den # 0
        /\ IF correct + incorrect > 0
           THEN OverallAccuracy.num * (correct + incorrect)
                    = correct * 100 * OverallAccuracy.den
           ELSE OverallAccuracy.num = 0

\* one question correct and the other incorrect: 50 percent
C20_Witness ==
    /\ Cardinality(CorrectIds) = 1 /\ Cardinality(IncorrectIds) = 1
    /\ CorrectIds # IncorrectIds
    /\ OverallAccuracy.num * 2 = 100 * OverallAccuracy.den

----------------------------------------------------------------------------
(* Timer discipline and session invariants *)

\* C21: at every instant at most one per-question timer is pending: arming
\* a timer (at start, on advance, on backward navigation) cancels the timer
\* armed earlier, for every interleaving of user intents and expiries.
C21_OneTimerPending == Cardinality(timers) <= 1

\* an accepted answer has advanced a timed session and armed a timer from a
\* render that held an earlier timer; that timer is the only one pending
C21_Witness ==
    /\ QuizScreen /\ timerEnabled /\ lastOp = "answer"
    /\ \E t \in timers :
          /\ t.c.questionTimer # NoTimer /\ t.id # t.c.questionTimer
          /\ timers = {t}

\* C22: the timer is released on every exit from the running session: on
\* the dashboard and on the score card no timer is pending.
C22_NoTimerOutsideSession == ~inQuiz \/ showScore => timers = {}

\* C23: an accepted manual answer cancels the timer of its question: while
\* the answered question is still the current one (tutor mode, or the last
\* question) no timer is pending in a timed session.
C23_AnswerCancelsTimer ==
    lastOp = "answer" /\ timerEnabled /\ isAnswered => timers = {}

\* C24: while the session is paused no timer is pending, whatever is done
\* while paused.
C24_PausedNoTimer == QuizScreen /\ isPaused => timers = {}

\* C25: in every state of a running session
\* 0 <= currentQuestionIndex < Len(currentQuestions).
C25_IndexInRange ==
    inQuiz /\ ~showScore =>
        0 <= currentQuestionIndex /\ currentQuestionIndex < Len(currentQuestions)

\* a record is emitted by the step
Emits == sessionEmits' = sessionEmits + 1

\* C26: a timeout is an omitted attempt that is not correct: neither the
\* expiry of a timer nor the continue that follows a timeout in tutor mode
\* adds to the running score or to the score of the record it emits.
C26_TimeoutScoresNothing ==
    [][/\ (\E t \in timers : TimerAccepts(t.c) /\ TimerFire(t)) =>
              /\ score' <= score
              /\ Emits => lastRecord'.score <= score
       /\ TimedOutWaiting /\ Continue =>
              /\ score' <= score
              /\ Emits => lastRecord'.score <= score]_vars

\* C27: every accepted start begins in the running session with all
\* transient fields initialised: index 0, score 0, no selected answer, not
\* answered, not paused and no explanation shown.
C27_StartInitializes ==
    lastOp = "start" =>
        /\ inQuiz /\ ~showScore
        /\ currentQuestionIndex = 0 /\ score = 0
        /\ selectedAnswer = Null /\ ~isAnswered /\ ~isPaused
        /\ ~showExplanation

\* the three top-level modes
InDashboard == ~inQuiz
ShowingFinalScore == showScore
ExactlyOneMode ==
    /\ InDashboard \/ InSession \/ ShowingFinalScore
    /\ ~(InDashboard /\ InSession)
    /\ ~(InDashboard /\ ShowingFinalScore)
    /\ ~(InSession /\ ShowingFinalScore)

\* C28: exactly one of dashboard, in session, final score holds in every
\* state (the score-card flag is never set on the dashboard), and the mode
\* changes only by start (dashboard to session), by completing the last
\* question (session to final score), by quit (session to dashboard) and by
\* restart (final score to dashboard).
C28_ThreeModes ==
    /\ []ExactlyOneMode
    /\ [][/\ InDashboard /\ ~InDashboard' => InSession' /\ StartQuiz
          /\ InSession /\ ~InSession' =>
                \/ InDashboard' /\ Quit
                \/ /\ ShowingFinalScore'
                   /\ currentQuestionIndex = Len(currentQuestions) - 1
                   /\ Answer \/ TimerExpiry \/ Continue
          /\ ShowingFinalScore /\ ~ShowingFinalScore' =>
                InDashboard' /\ Restart]_vars

\* C29: every emitted record has 0 <= score <= totalQuestions, and the
\* running score never exceeds the length of the session's sequence.
C29_ScoreBounded ==
    /\ inQuiz => score <= Len(currentQuestions)
    /\ sessionEmits > 0 =>
          0 <= lastRecord.score /\ lastRecord.score <= lastRecord.totalQuestions

\* C30: in a running session the explanation is shown only for an answered
\* question of a tutor-mode session.
C30_ExplanationOnlyWhenAnswered ==
    QuizScreen /\ showExplanation => tutorMode /\ isAnswered
====
